---------------------------- MODULE Spec2Model ----------------------------
(***************************************************************************)
(* A model of repindex (src/repindex/repindex.py): the Ignore Policy       *)
(* (should_ignore), the Fact Extractor, the Import Resolver, the Graph     *)
(* Builder (build_dependency_graph), the Context Collector                 *)
(* (gather_dependencies_for_files) and the Change Tracker                  *)
(* (update_cache_and_generate_diff).                                       *)
(*                                                                         *)
(* Representation.  A path is the sequence of its segments; an absolute    *)
(* path starts with the segments of the repository root.  A file name, an  *)
(* import specifier and a glob pattern are strings.  The text of a source  *)
(* file is the sequence of its statements, each a record [kind, arg].  A   *)
(* directory exists exactly when a file lies beneath it.                   *)
(***************************************************************************)
EXTENDS Naturals, Sequences, FiniteSets, TLC

VARIABLES
    fs,        \* the file system: absolute path -> [st, body]
    listing,   \* the order os.listdir / os.scandir yields names in
    outdir,    \* main: repindex_out, where the snapshot and the report live
    opts,      \* the command line: [langs, no_ignore, skip_patterns]
    now,       \* the clock read by datetime.datetime.now()
    runs,      \* how many Change Tracker runs have been made
    edits,     \* how many times the user has touched the tree
    last,      \* what the most recent Change Tracker run computed
    dg,        \* what the most recent graph build returned, per graph_type
    cc,        \* the Context Collector: where gather_dependencies_for_files is
    ret        \* what a function called by itself returned

vars == <<fs, listing, outdir, opts, now, runs, edits, last, dg, cc, ret>>

---------------------------------------------------------------------------
(* Bounds of the model. *)

\* Change Tracker runs in one behaviour.
MaxRuns == 3

\* User edits of the tree in one behaviour.
MaxEdits == 2

\* Files present in a tree handed to the Graph Builder.
MaxFiles == 3

---------------------------------------------------------------------------
(* Sequences and strings. *)

Range(s) == {s[i] : i \in 1..Len(s)}

Last(s) == s[Len(s)]

Front(s) == SubSeq(s, 1, Len(s) - 1)

IsPrefix(p, s) == Len(p) <= Len(s) /\ SubSeq(s, 1, Len(p)) = p

RECURSIVE Flatten(_)
Flatten(ss) == IF ss = <<>> THEN <<>> ELSE Head(ss) \o Flatten(Tail(ss))

Reverse(s) == [i \in 1..Len(s) |-> s[Len(s) + 1 - i]]

\* The base names (file names without extension, directory names) and the
\* extensions every file name of the model is built from.
Stems == {"file1", "file2", "m", "dep", "index", "notes", "nothing",
          "repindex_cache", "repindex_changes"}

Exts == {".ts", ".tsx", ".py", ".txt", ".json", ".md"}

\* str.endswith(suffix), for the names of the model.
EndsWith(s, suffix) == \E stem \in Stems : stem \o suffix = s

\* os.path.splitext(name)[1].lower(); every extension of the model is
\* lower case already.
SplitExt(name) ==
    IF \E e \in Exts : EndsWith(name, e)
    THEN CHOOSE e \in Exts : EndsWith(name, e)
    ELSE ""

---------------------------------------------------------------------------
(* The file system. *)

\* os.path.abspath(args.repository_path)
Root == <<"repo">>

\* The two places main's repindex_out can be: outside the repository, or
\* inside it (output_dir is the repository itself, e.g. `repindex . -o .`).
OutDirs == {<<"out", "repindex">>, Root \o <<"repindex">>}

CacheName == "repindex_cache.json"

ChangesName == "repindex_changes.md"

\* The source files a repository of the model may hold, relative to Root.
RepoFiles == {<<"file1.ts">>, <<"file2.ts">>, <<"notes.txt">>,
              <<"sub", "m.ts">>, <<"node_modules", "dep.ts">>,
              <<"index.ts">>, <<"index.tsx">>, <<"file2.tsx">>, <<"sub", "index.ts">>}

AllPaths == {Root \o f : f \in RepoFiles}
                \cup {d \o <<n>> : d \in OutDirs, n \in {CacheName, ChangesName}}

Absent == [st |-> "absent", body |-> <<>>]

File(body) == [st |-> "file", body |-> body]

Exists(tree, p) == p \in DOMAIN tree /\ tree[p].st # "absent"

\* os.path.isdir: a directory is what a file lies beneath; the repository
\* root is a directory (main checks it).
IsDir(tree, d) ==
    \/ d = Root
    \/ \E p \in DOMAIN tree : tree[p].st # "absent" /\ Len(p) > Len(d) /\ IsPrefix(d, p)

\* os.path.exists
PathExists(tree, p) == Exists(tree, p) \/ IsDir(tree, p)

\* Every name that occurs as a segment of a path of the model, in one fixed
\* order; os.listdir yields the names of a directory in this order or in the
\* reverse one (the order is the file system's, not the program's).
NameOrder == <<"file1.ts", "file2.ts", "notes.txt", "m.ts", "dep.ts",
               CacheName, ChangesName, "sub", "node_modules", "repindex",
               "repo", "out", "index.ts", "index.tsx", "file2.tsx">>

Listed(order) == IF order = "asc" THEN NameOrder ELSE Reverse(NameOrder)

\* The file names of directory d, in listing order.
FileNames(tree, d, order) ==
    SelectSeq(Listed(order), LAMBDA n : Exists(tree, d \o <<n>>))

\* The sub-directory names of directory d, in listing order.
DirNames(tree, d, order) ==
    SelectSeq(Listed(order), LAMBDA n : ~Exists(tree, d \o <<n>>) /\ IsDir(tree, d \o <<n>>))

\* os.path.relpath(fp, root_dir) for a path under the root.
RelPath(fp, root) == SubSeq(fp, Len(root) + 1, Len(fp))

\* Every tree over the files of `files` (a sequence), each absent or holding
\* one of the texts the function `texts` gives for it, with at most `most` files present.
RECURSIVE Trees(_, _, _)
Trees(files, texts, most) ==
    IF files = <<>> THEN {[p \in AllPaths |-> Absent]}
    ELSE LET p == Root \o Head(files)
             rest == Trees(Tail(files), texts, most)
         IN  rest \cup
             {[t EXCEPT ![p] = File(body)] :
                t \in {r \in rest : Cardinality({q \in AllPaths : r[q] # Absent}) < most},
                body \in texts[Head(files)]}

---------------------------------------------------------------------------
(* The Ignore Policy. *)

DEFAULT_IGNORES == <<".git", ".DS_Store", "node_modules", "__pycache__",
                     "env", "venv", "dist", "build", "public">>

\* The glob patterns --skip may carry in the model.
Patterns == {"*.ts", "sub/*", "file1.ts"}

\* The texts before and after the one "*" of a pattern of the model.
Affixes == {"", ".ts", "sub/"}

\* os.path.join of the segments of an absolute path, as one string.
RECURSIVE PathStr(_)
PathStr(p) == IF p = <<>> THEN "" ELSE PathStr(Front(p)) \o "/" \o Last(p)

\* Everything a "*" can stand for in a name or a full path of the model.
StarTexts ==
    LET dirs == UNION {{SubSeq(p, 1, k) : k \in 0..(Len(p) - 1)} : p \in AllPaths}
    IN  Stems \cup Range(NameOrder)
            \cup {PathStr(d) \o "/" \o s : d \in dirs, s \in Stems \cup Range(NameOrder)}

\* fnmatch.fnmatch(name, pat) for a pattern with at most one "*" and no
\* other metacharacter: the text before the star, anything, the text after.
fnmatch(name, pat) ==
    IF \E pre \in Affixes, suf \in Affixes : pre \o "*" \o suf = pat
    THEN \E pre \in Affixes, suf \in Affixes :
            /\ pre \o "*" \o suf = pat
            /\ \E mid \in StarTexts \cup {""} : pre \o mid \o suf = name
    ELSE name = pat

\* One pattern of skip_patterns against one path (the body of the loop).
SkipMatches(tree, path, pat) ==
    LET basename == Last(path)
        parent_dir == IF Len(path) > 1 THEN path[Len(path) - 1] ELSE ""
        isDirPat == \E d \in Range(NameOrder) : d \o "/*" = pat
        dir_part == CHOOSE d \in Range(NameOrder) : d \o "/*" = pat
    IN  \/ isDirPat /\ IsDir(tree, path) /\ basename = dir_part
        \/ isDirPat /\ parent_dir = dir_part
        \/ fnmatch(basename, pat)
        \/ fnmatch(PathStr(path), pat)
        \/ \E i \in 1..Len(path) : fnmatch(path[i], pat)

\* A slip: the default names are not consulted, only the language hints
\* and the patterns.
should_ignore_no_defaults(tree, path, langs, no_ignore, skip_patterns) ==
    IF no_ignore THEN FALSE
    ELSE \/ "react" \in Range(langs) /\ Last(path) = "node_modules"
         \/ "python" \in Range(langs) /\ Last(path) \in {"__pycache__", "env", "venv"}
         \/ \E i \in 1..Len(skip_patterns) : SkipMatches(tree, path, skip_patterns[i])

should_ignore(tree, path, langs, no_ignore, skip_patterns) ==
    IF no_ignore THEN FALSE
    ELSE LET basename == Last(path)
         IN  \/ \E i \in 1..Len(DEFAULT_IGNORES) : DEFAULT_IGNORES[i] \in Range(path)
             \/ "react" \in Range(langs) /\ basename = "node_modules"
             \/ "python" \in Range(langs) /\ basename \in {"__pycache__", "env", "venv"}
             \/ \E i \in 1..Len(skip_patterns) : SkipMatches(tree, path, skip_patterns[i])

\* os.walk(root), top down, with the pruning every walker of the program
\* applies to dirnames: the files visited, as absolute paths, in order.
RECURSIVE Walk(_, _, _, _, _, _)
Walk(tree, d, order, langs, no_ignore, skip_patterns) ==
    LET files == FileNames(tree, d, order)
        kept == SelectSeq(DirNames(tree, d, order),
                    LAMBDA n : ~should_ignore(tree, d \o <<n>>, langs, no_ignore, skip_patterns))
    IN  [i \in 1..Len(files) |-> d \o <<files[i]>>]
            \o Flatten([i \in 1..Len(kept) |->
                    Walk(tree, d \o <<kept[i]>>, order, langs, no_ignore, skip_patterns)])

---------------------------------------------------------------------------
(* Source text. *)

\* `import ... from "<arg>";`
Import(arg) == [kind |-> "import", arg |-> arg]

\* `import ... from "<arg>"` with no semicolon after it
ImportNoSemi(arg) == [kind |-> "import_nosemi", arg |-> arg]

\* `export const <arg> = ...;`, `export function <arg>() {}`, ...
Export(arg) == [kind |-> "export", arg |-> arg]

\* any other line
Line(arg) == [kind |-> "line", arg |-> arg]

\* tests/test_repindex.py, setUp: file1.ts and file2.ts
File1Text == <<Import("./file2"), Export("x")>>

File2Text == <<Export("func")>>

---------------------------------------------------------------------------
(* Python dicts keep insertion order: a dict is the sequence of its items. *)

Item(k, v) == [key |-> k, val |-> v]

Keys(d) == [i \in 1..Len(d) |-> d[i].key]

Has(d, k) == \E i \in 1..Len(d) : d[i].key = k

Get(d, k) == d[CHOOSE i \in 1..Len(d) : d[i].key = k].val

---------------------------------------------------------------------------
(* The Change Tracker. *)

compute_file_hash(content) == <<"sha256", content>>

\* json.load of the snapshot file, or the empty snapshot when there is none.
load_cache(tree, cf) ==
    IF Exists(tree, cf) THEN tree[cf].body[1] ELSE [files |-> <<>>]

\* difflib.unified_diff over the lines of old and new, joined: empty exactly
\* when the two have the same lines; the hunks themselves are abstracted to
\* the lines taken away and the lines put in.
generate_diff(old, new) ==
    IF old = new THEN <<>>
    ELSE <<"--- old", "+++ new", [minus |-> old, plus |-> new]>>

\* A slip: the walk ends at the first file that cannot be read.
ReadAllUntilUnreadable(tree, r, order, o) ==
    LET walk == Walk(tree, r, order, o.langs, o.no_ignore, o.skip_patterns)
        stop == IF \E i \in 1..Len(walk) : tree[walk[i]].st # "file"
                THEN CHOOSE i \in 1..Len(walk) :
                        /\ tree[walk[i]].st # "file"
                        /\ \A j \in 1..(i - 1) : tree[walk[j]].st = "file"
                ELSE Len(walk) + 1
        readable == SubSeq(walk, 1, stop - 1)
    IN  [i \in 1..Len(readable) |->
            Item(RelPath(readable[i], r),
                 [hash |-> compute_file_hash(tree[readable[i]].body),
                  content |-> tree[readable[i]].body])]

\* Lines 464-475: the walk, reading and hashing every file it can read.
ReadAll(tree, r, order, o) ==
    LET walk == Walk(tree, r, order, o.langs, o.no_ignore, o.skip_patterns)
        readable == SelectSeq(walk, LAMBDA fp : tree[fp].st = "file")
    IN  [i \in 1..Len(readable) |->
            Item(RelPath(readable[i], r),
                 [hash |-> compute_file_hash(tree[readable[i]].body),
                  content |-> tree[readable[i]].body])]

\* A slip: a file counts as changed only when the snapshot lacks it.
ChangedOnlyNew(old_files, current) ==
    Keys(SelectSeq(current, LAMBDA it : ~Has(old_files, it.key)))

\* Lines 476-480
Changed(old_files, current) ==
    Keys(SelectSeq(current, LAMBDA it :
        \/ ~Has(old_files, it.key)
        \/ Get(old_files, it.key).hash # it.val.hash))

\* Line 481
Removed(old_files, current) ==
    SelectSeq(Keys(old_files), LAMBDA f : ~Has(current, f))

\* Lines 486-496: one "### f" entry of the report.
ReportEntry(old_files, current, f) ==
    LET newc == Get(current, f).content
        oldc == IF Has(old_files, f) /\ "content" \in DOMAIN Get(old_files, f)
                THEN Get(old_files, f).content ELSE <<>>
        diff == generate_diff(oldc, newc)
    IN  IF diff # <<>> THEN [path |-> f, diff |-> diff]
        ELSE [path |-> f, diff |-> <<"_No diff available (new file)_">>]

\* A slip: a run that only found removals writes no report.
WritesReportOnChangeOnly(changed, removed) == changed # <<>>

\* Lines 482-500: whether the report is written.
WritesReport(changed, removed) == changed # <<>> \/ removed # <<>>

\* Lines 483-500: the report.
Report(old_files, current, changed, removed, time) ==
    [timestamp |-> time,
     changed |-> [i \in 1..Len(changed) |-> ReportEntry(old_files, current, changed[i])],
     removed |-> removed]

\* A slip: the transient file map is persisted as it is, content included.
NewCacheWithContent(current, time) == [files |-> current, timestamp |-> time]

\* Lines 501-502
NewCache(current, time) ==
    [files |-> [i \in 1..Len(current) |->
                    Item(current[i].key, [hash |-> current[i].val.hash])],
     timestamp |-> time]

\* What a run leaves in `last`; `after` is the kind of the run before it and
\* whether that run found a snapshot.  No run has been made.
NoRun ==
    [kind |-> "none", old_files |-> <<>>, current |-> <<>>, changed |-> <<>>,
     removed |-> <<>>, wrote |-> FALSE, hadCache |-> FALSE, twice |-> FALSE,
     fresh |-> FALSE, after |-> [kind |-> "none", hadCache |-> FALSE]]

NoGraphs == [built |-> FALSE]

\* gather_dependencies_for_files has not been called.
NoGather == [pc |-> "idle"]

\* No function has been called by itself.
NoReturn == [fn |-> "none"]

\* A slip: the report is removed in place of the snapshot.
RemoveReportInstead(tree, cf) ==
    [tree EXCEPT ![Front(cf) \o <<ChangesName>>] = Absent]

\* A slip: the snapshot is left in place when caching is disabled.
RemoveCacheKept(tree, cf) == tree

\* Lines 458-459
RemoveCache(tree, cf) ==
    IF Exists(tree, cf) THEN [tree EXCEPT ![cf] = Absent] ELSE tree

\* update_cache_and_generate_diff(r, langs, no_ignore, outdir, no_cache, skip_patterns).
\* Each value the function computes once is bound once.
UpdateCacheAndGenerateDiff(no_cache) ==
    /\ runs < MaxRuns
    /\ runs' = runs + 1
    /\ LET cf == outdir \o <<CacheName>>
           changes_file == outdir \o <<ChangesName>>
       IN  IF no_cache
           THEN /\ fs' = RemoveCache(fs, cf)
                /\ last' = [NoRun EXCEPT !.kind = "no_cache", !.hadCache = Exists(fs, cf),
                                          !.after = [kind |-> last.kind,
                                                     hadCache |-> last.hadCache]]
                /\ now' = now
           ELSE \E old_files \in {load_cache(fs, cf).files} :
                \E current \in {ReadAll(fs, Root, listing, opts)} :
                \E changed \in {Changed(old_files, current)} :
                \E removed \in {Removed(old_files, current)} :
                    LET wrote == WritesReport(changed, removed)
                        t1 == IF wrote THEN now + 1 ELSE now
                        fs1 == IF wrote
                               THEN [fs EXCEPT ![changes_file] =
                                        File(<<Report(old_files, current, changed, removed, t1)>>)]
                               ELSE fs
                    IN  /\ fs' = [fs1 EXCEPT ![cf] = File(<<NewCache(current, t1 + 1)>>)]
                        /\ now' = t1 + 1
                        /\ last' = [kind |-> "reconcile", old_files |-> old_files,
                                    current |-> current, changed |-> changed,
                                    removed |-> removed, wrote |-> wrote,
                                    hadCache |-> Exists(fs, cf),
                                    twice |-> (last.kind = "reconcile" /\ last.fresh),
                                    fresh |-> TRUE,
                                    after |-> [kind |-> last.kind,
                                               hadCache |-> last.hadCache]]
    /\ UNCHANGED <<listing, outdir, opts, edits, dg, cc, ret>>

---------------------------------------------------------------------------
(* The Fact Extractor. *)

\* re.findall(imp_pat, c): the specifier of every `import ... from "...";`.
\* An import with no semicolon after it matches nothing by itself, and the
\* lazy [\s\S]*? then runs on to the `from "...";` of the next terminated
\* import, which is found either way.
FindImports(c) == SelectSeq(c, LAMBDA st : st.kind = "import")

\* re.findall(exp_pat, c): the identifier after every `export [keyword]`.
FindExports(c) == SelectSeq(c, LAMBDA st : st.kind = "export")

Args(stmts) == [i \in 1..Len(stmts) |-> stmts[i].arg]

\* extract_dependencies_ts, for a file that can be read.
extract_dependencies_ts(c) ==
    [imports |-> Args(FindImports(c)),
     exports |-> Args(FindExports(c)),
     structure |-> [language |-> "typescript",
                    functions |-> Args(FindExports(c)),
                    classes |-> <<>>]]

\* The statements of a Python module, as ast.parse gives them: Py("Import",
\* name), Py("FunctionDef", name) and Py("ClassDef", name) carry a body,
\* empty for an import.
PyNode(kind, arg, body) == [kind |-> kind, arg |-> arg, body |-> body]

IsPython(c) == \A i \in 1..Len(c) : c[i].kind \in {"Import", "FunctionDef", "ClassDef", "line"}

Body(n) == IF "body" \in DOMAIN n THEN n.body ELSE <<>>

\* ast.walk: breadth first, each node with whether its parent is the Module.
RECURSIVE AstWalk(_)
AstWalk(todo) ==
    IF todo = <<>> THEN <<>>
    ELSE LET n == Head(todo)
             kids == [i \in 1..Len(Body(n.node)) |-> [node |-> Body(n.node)[i], top |-> FALSE]]
         IN  <<n>> \o AstWalk(Tail(todo) \o kids)

\* parse_python_structure, lines 148-169, for a module that parses.
parse_python_structure(c) ==
    LET nodes == AstWalk([i \in 1..Len(c) |-> [node |-> c[i], top |-> TRUE]])
        imports == Args([i \in 1..Len(SelectSeq(nodes, LAMBDA n : n.node.kind = "Import")) |->
                        SelectSeq(nodes, LAMBDA n : n.node.kind = "Import")[i].node])
        fns == SelectSeq(nodes, LAMBDA n : n.node.kind = "FunctionDef" /\ n.top)
        functions == [i \in 1..Len(fns) |-> fns[i].node.arg]
        cls == SelectSeq(nodes, LAMBDA n : n.node.kind = "ClassDef")
        classes == [i \in 1..Len(cls) |->
                      [name |-> cls[i].node.arg,
                       methods |-> Args(SelectSeq(Body(cls[i].node),
                                            LAMBDA b : b.kind = "FunctionDef"))]]
    IN  [imports |-> imports,
         exports |-> functions \o [i \in 1..Len(classes) |-> classes[i].name],
         structure |-> [language |-> "python", functions |-> functions, classes |-> classes]]

NoDeps == [imports |-> <<>>, exports |-> <<>>, structure |-> <<>>]

\* Whether extract_dependencies(file_path, langs) raises: open() fails on a
\* file that cannot be read, ast.parse on text that is not Python; neither
\* extractor catches.
ExtractRaises(tree, fp) ==
    LET ext == SplitExt(Last(fp))
    IN  \/ ext \in {".ts", ".tsx", ".py"} /\ tree[fp].st # "file"
        \/ ext = ".py" /\ tree[fp].st = "file" /\ ~IsPython(tree[fp].body)

\* extract_dependencies(file_path, langs), when it returns.
extract_dependencies(tree, fp) ==
    LET ext == SplitExt(Last(fp))
    IN  IF ext \in {".ts", ".tsx"} THEN extract_dependencies_ts(tree[fp].body)
        ELSE IF ext = ".py" THEN parse_python_structure(tree[fp].body)
        ELSE NoDeps

---------------------------------------------------------------------------
(* The Import Resolver. *)

\* The import specifiers of the model, with what str.startswith('.'),
\* splitting at os.sep and imp.replace('.', os.sep) make of each.
Specifiers == {"./file2", "./sub/m", "../file2", "./file1", "react",
               "./node_modules/dep", "file2.ts",
               ".", "..", "./sub", "./index.ts", "./nothing"}

StartsWithDot(imp) ==
    imp \in {"./file2", "./sub/m", "../file2", "./file1", "./node_modules/dep",
             ".", "..", "./sub", "./index.ts", "./nothing"}

SepSplit(imp) ==
    CASE imp = "./file2" -> <<".", "file2">>
      [] imp = "./sub/m" -> <<".", "sub", "m">>
      [] imp = "../file2" -> <<"..", "file2">>
      [] imp = "./file1" -> <<".", "file1">>
      [] imp = "./node_modules/dep" -> <<".", "node_modules", "dep">>
      [] imp = "./sub" -> <<".", "sub">>
      [] imp = "./index.ts" -> <<".", "index.ts">>
      [] imp = "./nothing" -> <<".", "nothing">>
      [] OTHER -> <<imp>>

DotsToSep(imp) ==
    CASE imp = "file2.ts" -> <<"file2", "ts">>
      [] OTHER -> <<imp>>

\* os.path.normpath of a relative path: "." dropped, "x/.." collapsed,
\* leading ".." kept; applied to an absolute path it is what the file system
\* resolves the path to.
RECURSIVE Collapse(_, _)
Collapse(todo, acc) ==
    IF todo = <<>> THEN acc
    ELSE IF Head(todo) = "." THEN Collapse(Tail(todo), acc)
    ELSE IF Head(todo) = ".." /\ acc # <<>> /\ Last(acc) # ".."
         THEN Collapse(Tail(todo), Front(acc))
    ELSE Collapse(Tail(todo), Append(acc, Head(todo)))

normpath(p) == IF Collapse(p, <<>>) = <<>> THEN <<".">> ELSE Collapse(p, <<>>)

\* candidate + e
AddExt(candidate, e) == Front(candidate) \o <<Last(candidate) \o e>>

\* os.path.join(root_dir, p), as the file system sees it.
Under(root, p) == Collapse(root \o p, <<>>)

\* The first element of seq whose test `ok` (a sequence of booleans, one for
\* each element) holds, as a for loop that returns at its first hit finds it.
FirstThat(seq, ok, default) ==
    IF \E i \in 1..Len(seq) : ok[i]
    THEN seq[CHOOSE i \in 1..Len(seq) : ok[i] /\ \A j \in 1..(i - 1) : ~ok[j]]
    ELSE default

\* A slip: the extension probe is left out, the candidate returned as it is.
resolve_import_path_no_probe(tree, file, imp, root_dir) ==
    IF StartsWithDot(imp) THEN normpath(Front(file) \o SepSplit(imp)) ELSE SepSplit(imp)

resolve_import_path(tree, file, imp, root_dir) ==
    LET exts == <<".ts", ".tsx", ".py">>
    IN  IF StartsWithDot(imp)
        THEN LET base == Front(file)
                 candidate == normpath(base \o SepSplit(imp))
             IN  IF IsDir(tree, Under(root_dir, candidate))
                 THEN LET pfs == <<"index.ts", "index.tsx", "__init__.py">>
                          found == FirstThat(pfs,
                                      [i \in 1..Len(pfs) |->
                                          PathExists(tree, Under(root_dir, candidate \o <<pfs[i]>>))],
                                      "")
                      IN  IF found # "" THEN candidate \o <<found>> ELSE candidate
                 ELSE IF ~\E i \in 1..Len(exts) : EndsWith(Last(candidate), exts[i])
                      THEN LET e == FirstThat(exts,
                                      [i \in 1..Len(exts) |->
                                          PathExists(tree, Under(root_dir, AddExt(candidate, exts[i])))],
                                      "")
                           IN  IF e # "" THEN AddExt(candidate, e) ELSE candidate
                      ELSE candidate
        ELSE LET bc == DotsToSep(imp)
                 e == FirstThat(exts,
                          [i \in 1..Len(exts) |->
                              PathExists(tree, Under(root_dir, AddExt(bc, exts[i])))], "")
             IN  IF e # "" THEN AddExt(bc, e) ELSE SepSplit(imp)

---------------------------------------------------------------------------
(* The Graph Builder. *)

None == <<>>

GraphTypes == {"full", "imports_only", "exports_only", "no_objects"}

\* Lines 229-244: the files that become nodes, as absolute paths, in order.
Eligible(tree, root_dir, order, langs, no_ignore, skip_patterns) ==
    SelectSeq(Walk(tree, root_dir, order, langs, no_ignore, skip_patterns),
        LAMBDA fp : /\ SplitExt(Last(fp)) \in {".ts", ".tsx", ".py"}
                    /\ ~should_ignore(tree, fp, langs, no_ignore, skip_patterns))

\* Lines 250-252 and 256-258: an edge, its object list attached unless the
\* mode strips it.
Edge(from, to, type, objects, graph_type) ==
    IF graph_type # "no_objects"
    THEN [from |-> from, to |-> to, type |-> type, objects |-> objects]
    ELSE [from |-> from, to |-> to, type |-> type]

\* A slip: an edge is made of every import, known node or not.
ImportTargetsUnchecked(tree, root_dir, nodes, file, deps) ==
    [i \in 1..Len(deps.imports) |-> resolve_import_path(tree, file, deps.imports[i], root_dir)]

\* Lines 247-249: the resolved targets of a file's imports that are nodes.
ImportTargets(tree, root_dir, nodes, file, deps) ==
    SelectSeq([i \in 1..Len(deps.imports) |->
                  resolve_import_path(tree, file, deps.imports[i], root_dir)],
              LAMBDA target : target \in Range(nodes))

\* Lines 246-259: the edges of one file.
FileEdges(tree, root_dir, nodes, file, deps, graph_type) ==
    LET targets == ImportTargets(tree, root_dir, nodes, file, deps)
    IN  (IF graph_type \in {"full", "imports_only"}
         THEN [i \in 1..Len(targets) |->
                  Edge(file, targets[i], "import", deps.imports, graph_type)]
         ELSE <<>>)
        \o
        (IF graph_type \in {"full", "exports_only"} /\ deps.exports # <<>>
         THEN <<Edge(file, None, "export", deps.exports, graph_type)>>
         ELSE <<>>)

Raised == [ok |-> FALSE, nodes |-> <<>>, edges |-> <<>>, file_dependencies |-> <<>>]

\* build_dependency_graph(root_dir, langs, graph_type, no_ignore, skip_patterns)
build_dependency_graph(tree, root_dir, order, langs, graph_type, no_ignore, skip_patterns) ==
    LET fps == Eligible(tree, root_dir, order, langs, no_ignore, skip_patterns)
        nodes == [i \in 1..Len(fps) |-> RelPath(fps[i], root_dir)]
    IN  IF \E i \in 1..Len(fps) : ExtractRaises(tree, fps[i])
        THEN Raised
        ELSE LET file_dependencies ==
                     [i \in 1..Len(fps) |-> Item(nodes[i], extract_dependencies(tree, fps[i]))]
             IN  [ok |-> TRUE,
                  nodes |-> nodes,
                  edges |-> Flatten([i \in 1..Len(nodes) |->
                               FileEdges(tree, root_dir, nodes, nodes[i],
                                         file_dependencies[i].val, graph_type)]),
                  file_dependencies |-> file_dependencies]

\* main, lines 679-682: the four projections, built one after the other.
BuildGraphs ==
    /\ ~dg.built
    /\ dg' = [built |-> TRUE,
              graphs |-> [t \in GraphTypes |->
                            build_dependency_graph(fs, Root, listing, opts.langs, t,
                                                   opts.no_ignore, opts.skip_patterns)]]
    /\ UNCHANGED <<fs, listing, outdir, opts, now, runs, edits, last, cc, ret>>

---------------------------------------------------------------------------
(* The user, between runs. *)

\* The files the user edits between Change Tracker runs, and the texts put
\* in them.
Tracked == {<<"file1.ts">>, <<"sub", "m.ts">>, <<"node_modules", "dep.ts">>}

Texts(f) == IF f = <<"file1.ts">> THEN {File1Text, File2Text} ELSE {File2Text}

TrackedTrees ==
    Trees(<<<<"file1.ts">>, <<"sub", "m.ts">>, <<"node_modules", "dep.ts">>>>,
          [f \in Tracked |-> Texts(f)], 3)

UserWrite(f, body) ==
    /\ edits < MaxEdits
    /\ fs[Root \o f] # File(body)
    /\ fs' = [fs EXCEPT ![Root \o f] = File(body)]
    /\ edits' = edits + 1
    /\ last' = [last EXCEPT !.fresh = FALSE]
    /\ UNCHANGED <<listing, outdir, opts, now, runs, dg, cc, ret>>

UserDelete(f) ==
    /\ edits < MaxEdits
    /\ Exists(fs, Root \o f)
    /\ fs' = [fs EXCEPT ![Root \o f] = Absent]
    /\ edits' = edits + 1
    /\ last' = [last EXCEPT !.fresh = FALSE]
    /\ UNCHANGED <<listing, outdir, opts, now, runs, dg, cc, ret>>

Init ==
    /\ fs \in TrackedTrees
    /\ listing \in {"asc", "desc"}
    /\ outdir \in OutDirs
    /\ opts \in [langs : {<<>>}, no_ignore : BOOLEAN, skip_patterns : {<<>>}]
    /\ now = 0
    /\ runs = 0
    /\ edits = 0
    /\ last = NoRun
    /\ dg = NoGraphs
    /\ cc = NoGather
    /\ ret = NoReturn

Next ==
    \/ \E no_cache \in BOOLEAN : UpdateCacheAndGenerateDiff(no_cache)
    \/ \E f \in Tracked : \E body \in Texts(f) : UserWrite(f, body)
    \/ \E f \in Tracked : UserDelete(f)

Spec == Init /\ [][Next]_vars

---------------------------------------------------------------------------
(* The Graph Builder on a tree that stands still. *)

\* tests/test_repindex.py has file1.ts import ./file2; the other texts import
\* two nodes and an external package, a parent directory's file, a file of
\* an excluded directory, or each other.
TwoImportsText == <<Import("./file2"), Import("./sub/m"), Import("react")>>

UpText == <<Import("../file2"), Export("m")>>

IntoExcludedText == <<Import("./node_modules/dep"), ImportNoSemi("./file2"), Export("x")>>

BackText == <<Import("./file1"), Import("file2.ts")>>

NotesText == <<Line("Just some text.")>>

SourceTexts(f) ==
    CASE f = <<"file1.ts">> -> {File1Text, TwoImportsText, IntoExcludedText}
      [] f = <<"file2.ts">> -> {File2Text, BackText}
      [] f = <<"sub", "m.ts">> -> {File2Text, UpText}
      [] f = <<"node_modules", "dep.ts">> -> {File2Text}
      [] f = <<"notes.txt">> -> {NotesText, File1Text}
      [] OTHER -> {File2Text}

SourceTrees ==
    Trees(<<<<"file1.ts">>, <<"file2.ts">>, <<"notes.txt">>, <<"sub", "m.ts">>,
            <<"node_modules", "dep.ts">>>>,
          [f \in RepoFiles |-> SourceTexts(f)], MaxFiles)

Options ==
    [langs : {<<>>, <<"react">>}, no_ignore : BOOLEAN, skip_patterns : {<<>>, <<"sub/*">>}]

GraphInit ==
    /\ fs \in SourceTrees
    /\ listing \in {"asc", "desc"}
    /\ outdir = <<"out", "repindex">>
    /\ opts \in Options
    /\ now = 0
    /\ runs = 0
    /\ edits = 0
    /\ last = NoRun
    /\ dg = NoGraphs
    /\ cc = NoGather
    /\ ret = NoReturn

GraphNext == BuildGraphs

GraphSpec == GraphInit /\ [][GraphNext]_vars

---------------------------------------------------------------------------
(* Properties of the Change Tracker. *)

CacheFile == outdir \o <<CacheName>>

ChangesFile == outdir \o <<ChangesName>>

\* Every repository-relative path a run of the model can meet.
RelPaths == {RelPath(p, Root) : p \in {q \in AllPaths : IsPrefix(Root, q)}}

\* C1: when the Change Tracker is run twice in a row with caching enabled
\* and the user touches no file in between, the second run finds nothing
\* changed, nothing removed and writes no report, whatever the output
\* directory is.
C1_Idempotent ==
    (last.kind = "reconcile" /\ last.twice) =>
        /\ last.changed = <<>>
        /\ last.removed = <<>>
        /\ ~last.wrote

\* C2: in a reconciling run a path is changed exactly when the walk read it
\* and the prior snapshot lacks it or holds another hash for it; a path is
\* removed exactly when the prior snapshot holds it and the walk did not read
\* it; so no path is both, and a path whose hash is the stored one is neither.
C2_Classification ==
    last.kind = "reconcile" =>
        /\ \A f \in RelPaths :
            /\ f \in Range(last.changed) <=>
                    /\ Has(last.current, f)
                    /\ \/ ~Has(last.old_files, f)
                       \/ Get(last.old_files, f).hash
                            # compute_file_hash(Get(last.current, f).content)
            /\ f \in Range(last.removed) <=>
                    (Has(last.old_files, f) /\ ~Has(last.current, f))
            /\ ( /\ Has(last.current, f)
                 /\ Has(last.old_files, f)
                 /\ Get(last.old_files, f).hash = Get(last.current, f).hash )
                  => f \notin Range(last.changed) \cup Range(last.removed)
        /\ Range(last.changed) \cup Range(last.removed) \subseteq RelPaths
        /\ Range(last.changed) \cap Range(last.removed) = {}

\* A run that met all three: a file whose stored hash differs, a file the
\* snapshot held that is gone, and a file whose hash is the stored one.
C2_Witness ==
    /\ last.kind = "reconcile"
    /\ \E f \in Range(last.changed) : Has(last.old_files, f)
    /\ last.removed # <<>>
    /\ \E f \in RelPaths :
        /\ Has(last.current, f)
        /\ Has(last.old_files, f)
        /\ Get(last.old_files, f).hash = Get(last.current, f).hash

\* C3: after a reconciling run, with or without changes, the persisted
\* snapshot names exactly the files the walk of that run read, holds for each
\* of them a hash and nothing else, and the hash is that of the content the
\* file had in that run.
C3_SnapshotRewritten ==
    last.kind = "reconcile" =>
        /\ Exists(fs, CacheFile)
        /\ LET files == fs[CacheFile].body[1].files
           IN  /\ Keys(files) = Keys(last.current)
               /\ \A i \in 1..Len(files) :
                    /\ DOMAIN files[i].val = {"hash"}
                    /\ files[i].val.hash
                         = compute_file_hash(Get(last.current, files[i].key).content)
        /\ last.fresh =>
             \A i \in 1..Len(last.current) :
                LET p == Root \o last.current[i].key
                IN  p \notin {CacheFile, ChangesFile} =>
                        fs[p] = File(last.current[i].val.content)
        /\ last.fresh =>
             \A f \in Tracked :
                ( /\ Exists(fs, Root \o f)
                  /\ ~should_ignore(fs, Root \o Front(f), opts.langs,
                                    opts.no_ignore, opts.skip_patterns) )
                    => Has(last.current, f)

\* A run that detected no change and still rewrote a snapshot of two files.
C3_Witness ==
    /\ last.kind = "reconcile"
    /\ last.changed = <<>> /\ last.removed = <<>>
    /\ Len(fs[CacheFile].body[1].files) >= 2
    /\ fs[CacheFile].body[1].timestamp = now

\* C4: a run with caching disabled leaves no snapshot in the output
\* directory, writes none, and leaves the change report as it was.
C4_NoCache ==
    [][ (runs' = runs + 1 /\ last'.kind = "no_cache") =>
            /\ ~Exists(fs', CacheFile)
            /\ \A p \in AllPaths : p # CacheFile => fs'[p] = fs[p] ]_vars

\* A run with caching disabled that found a snapshot, and a report, of an
\* earlier run.
C4_Witness ==
    /\ last.kind = "no_cache"
    /\ last.hadCache
    /\ Exists(fs, ChangesFile)
    /\ ~Exists(fs, CacheFile)

\* The paths of the report's two sections.
ReportChanged(report) == [i \in 1..Len(report.changed) |-> report.changed[i].path]

\* C5: a reconciling run writes the change report exactly when it found a
\* changed or a removed path; the report's first section lists the changed
\* paths and its second the removed paths.
C5_ReportIffChange ==
    last.kind = "reconcile" =>
        LET written == /\ Exists(fs, ChangesFile)
                       /\ fs[ChangesFile].body[1].timestamp = now - 1
        IN  /\ written <=> (last.changed # <<>> \/ last.removed # <<>>)
            /\ written =>
                /\ ReportChanged(fs[ChangesFile].body[1]) = last.changed
                /\ fs[ChangesFile].body[1].removed = last.removed

\* A run that found only a removal, and reported it.
C5_Witness ==
    /\ last.kind = "reconcile"
    /\ last.changed = <<>>
    /\ last.removed # <<>>
    /\ Exists(fs, ChangesFile)
    /\ fs[ChangesFile].body[1].removed = last.removed
    /\ fs[ChangesFile].body[1].timestamp = now - 1

---------------------------------------------------------------------------
(* Properties of the Graph Builder. *)

Graph(graph_type) == dg.graphs[graph_type]

ImportEdges(g) == SelectSeq(g.edges, LAMBDA e : e.type = "import")

ExportEdges(g) == SelectSeq(g.edges, LAMBDA e : e.type = "export")

ImportEdgesFrom(g, f) == SelectSeq(g.edges, LAMBDA e : e.type = "import" /\ e.from = f)

\* The files present in the repository, relative to its root.
Present == {f \in RepoFiles : Exists(fs, Root \o f)}

\* The scenario of the specification: file1.ts and file2.ts, as the tests
\* set them up, and nothing else.
Scenario ==
    /\ Present = {<<"file1.ts">>, <<"file2.ts">>}
    /\ fs[Root \o <<"file1.ts">>].body = File1Text
    /\ fs[Root \o <<"file2.ts">>].body = File2Text

\* C6: a file with one import that resolves to an on-disk file that is a
\* node has exactly one import edge in the full and imports-only graphs and
\* none in the exports-only graph, and the edge leads to the resolved path;
\* the file1.ts/file2.ts scenario gives the two nodes, the one import edge
\* with objects ["./file2"] and the two export edges with ["x"] and ["func"].
C6_OneImportOneEdge ==
    dg.built =>
        /\ \A i \in 1..Len(Graph("full").file_dependencies) :
            LET f == Graph("full").file_dependencies[i].key
                imports == Graph("full").file_dependencies[i].val.imports
                target == resolve_import_path(fs, f, imports[1], Root)
            IN  ( /\ Len(imports) = 1
                  /\ Exists(fs, Root \o target)
                  /\ target \in Range(Graph("full").nodes) )
                =>  /\ Len(ImportEdgesFrom(Graph("full"), f)) = 1
                    /\ ImportEdgesFrom(Graph("full"), f)[1].to = target
                    /\ Len(ImportEdgesFrom(Graph("imports_only"), f)) = 1
                    /\ ImportEdgesFrom(Graph("imports_only"), f)[1].to = target
                    /\ ImportEdgesFrom(Graph("exports_only"), f) = <<>>
        /\ Scenario =>
            /\ Range(Graph("full").nodes) = {<<"file1.ts">>, <<"file2.ts">>}
            /\ ImportEdges(Graph("full"))
                 = <<[from |-> <<"file1.ts">>, to |-> <<"file2.ts">>,
                      type |-> "import", objects |-> <<"./file2">>]>>
            /\ Len(ExportEdges(Graph("full"))) = 2
            /\ Range(ExportEdges(Graph("full")))
                 = {[from |-> <<"file1.ts">>, to |-> None, type |-> "export", objects |-> <<"x">>],
                    [from |-> <<"file2.ts">>, to |-> None, type |-> "export", objects |-> <<"func">>]}
            /\ ImportEdges(Graph("exports_only")) = <<>>
            /\ Len(ImportEdges(Graph("imports_only"))) = 1

\* The scenario, built, with its import edge and its two export edges.
C6_Witness ==
    /\ dg.built
    /\ Scenario
    /\ Len(Graph("full").edges) = 3
    /\ ImportEdgesFrom(Graph("full"), <<"file1.ts">>)[1].to = <<"file2.ts">>

\* C7: in every graph, of every mode, an import edge leads from a node to a
\* node: an import that resolves to no node makes no edge, and the build
\* fails for no other reason than an extractor raising.
C7_EdgesBetweenNodes ==
    dg.built =>
        \A t \in GraphTypes :
            /\ \A i \in 1..Len(Graph(t).edges) :
                Graph(t).edges[i].type = "import" =>
                    /\ Graph(t).edges[i].from \in Range(Graph(t).nodes)
                    /\ Graph(t).edges[i].to \in Range(Graph(t).nodes)
            /\ ~Graph(t).ok => \E p \in AllPaths : ExtractRaises(fs, p)

\* A built graph with an import edge, of a tree where some node imports
\* what resolves to no node.
C7_Witness ==
    /\ dg.built
    /\ ImportEdges(Graph("full")) # <<>>
    /\ \E i \in 1..Len(Graph("full").file_dependencies) :
        LET it == Graph("full").file_dependencies[i]
        IN  \E j \in 1..Len(it.val.imports) :
                resolve_import_path(fs, it.key, it.val.imports[j], Root)
                    \notin Range(Graph("full").nodes)

\* An edge without its object list.
Stripped(e) == [from |-> e.from, to |-> e.to, type |-> e.type]

\* C8: the no_objects graph has the nodes of the full graph and the same
\* sequence of import and export edges, each without its objects field.
C8_NoObjectsSameEdges ==
    dg.built =>
        /\ Graph("no_objects").nodes = Graph("full").nodes
        /\ Graph("no_objects").edges
             = [i \in 1..Len(Graph("full").edges) |-> Stripped(Graph("full").edges[i])]

\* C9: the objects of an import edge are the specifiers of the importing
\* file that resolve to the edge's target, and no other.
C9_ObjectsOfEdge ==
    dg.built =>
        \A i \in 1..Len(Graph("full").edges) :
            LET e == Graph("full").edges[i]
            IN  e.type = "import" =>
                    e.objects = SelectSeq(Get(Graph("full").file_dependencies, e.from).imports,
                                    LAMBDA imp : resolve_import_path(fs, e.from, imp, Root) = e.to)

---------------------------------------------------------------------------
(* The Change Tracker under --skip patterns. *)

\* main, lines 627-632: the skip patterns and language hints handed to the
\* Change Tracker; a glob for files, a glob for a directory, or none.
SkipOptions ==
    [langs : {<<>>, <<"react">>}, no_ignore : BOOLEAN,
     skip_patterns : {<<>>, <<"*.ts">>, <<"sub/*">>}]

SkipInit ==
    /\ fs \in TrackedTrees
    /\ listing \in {"asc", "desc"}
    /\ outdir = <<"out", "repindex">>
    /\ opts \in SkipOptions
    /\ now = 0
    /\ runs = 0
    /\ edits = 0
    /\ last = NoRun
    /\ dg = NoGraphs
    /\ cc = NoGather
    /\ ret = NoReturn

SkipSpec == SkipInit /\ [][Next]_vars

\* C11: a path the Ignore Policy rejects under the run's hints and patterns
\* is not read by the Change Tracker's walk, is not in the snapshot the run
\* persists and is not listed in the run's report.
C11_IgnoredNeverTracked ==
    (last.kind = "reconcile" /\ last.fresh) =>
        \A f \in RelPaths :
            should_ignore(fs, Root \o f, opts.langs, opts.no_ignore, opts.skip_patterns)
                => /\ ~Has(last.current, f)
                   /\ ~Has(fs[CacheFile].body[1].files, f)
                   /\ f \notin Range(last.changed) \cup Range(last.removed)

---------------------------------------------------------------------------
(* The Context Collector: gather_dependencies_for_files. *)

\* Targets in one --context_for list.
MaxTargets == 2

\* sys.getrecursionlimit(), scaled to the graphs of the model: dfs calls
\* nested deeper than this raise RecursionError.
RecursionLimit == 8

\* A slip: every edge that leaves f is followed, whatever its type.
FollowsAnyEdge(e, f) == e.from = f

\* Line 513: the edges dfs(f) follows.
FollowsEdge(e, f) == e.from = f /\ e.type = "import" /\ e.to # None

\* A slip: dfs never finds its argument visited.
NeverVisited(f, involved) == FALSE

\* Line 509
AlreadyVisited(f, involved) == f \in involved

\* Lines 506 and 507: the full graph is built, involved is the empty set, and
\* the loop over targets is about to start.
GatherStart(built, targets) ==
    IF built.ok
    THEN [pc |-> "loop", g |-> [nodes |-> built.nodes, edges |-> built.edges],
          targets |-> targets, ti |-> 1, stack |-> <<>>,
          involved |-> {}, visited |-> <<>>]
    ELSE [pc |-> "raised"]

\* gather_dependencies_for_files(r, langs, no_ignore, targets, skip_patterns)
\* is called.
Gather(targets) ==
    /\ cc.pc = "idle"
    /\ \E built \in {build_dependency_graph(fs, Root, listing, opts.langs, "full",
                                            opts.no_ignore, opts.skip_patterns)} :
          cc' = GatherStart(built, targets)
    /\ UNCHANGED <<fs, listing, outdir, opts, now, runs, edits, last, dg, ret>>

\* Lines 515-517: one turn of the loop over targets; a target that is a
\* node is handed to dfs, any other is passed over.
NextTarget ==
    /\ cc.pc = "loop"
    /\ cc.stack = <<>>
    /\ cc.ti <= Len(cc.targets)
    /\ cc' = [cc EXCEPT !.ti = @ + 1,
                        !.stack = IF cc.targets[cc.ti] \in Range(cc.g.nodes)
                                  THEN <<[f |-> cc.targets[cc.ti], i |-> 0]>>
                                  ELSE <<>>]
    /\ UNCHANGED <<fs, listing, outdir, opts, now, runs, edits, last, dg, ret>>

\* Lines 508-514: one step of the innermost call of dfs.  A frame is the
\* argument f and the index i of the edge the for loop looks at next; i = 0
\* is a call that has just been made.
DfsStep ==
    /\ cc.pc = "loop"
    /\ cc.stack # <<>>
    /\ LET top == Last(cc.stack)
           below == Front(cc.stack)
       IN  IF top.i = 0
           THEN IF AlreadyVisited(top.f, cc.involved)
                THEN cc' = [cc EXCEPT !.stack = below]
                ELSE cc' = [cc EXCEPT !.involved = @ \cup {top.f},
                                      !.visited = Append(@, top.f),
                                      !.stack = Append(below, [top EXCEPT !.i = 1])]
           ELSE IF top.i > Len(cc.g.edges)
                THEN cc' = [cc EXCEPT !.stack = below]
                ELSE LET e == cc.g.edges[top.i]
                         on == Append(below, [top EXCEPT !.i = @ + 1])
                     IN  IF ~FollowsEdge(e, top.f)
                         THEN cc' = [cc EXCEPT !.stack = on]
                         ELSE IF Len(on) >= RecursionLimit
                              THEN cc' = [pc |-> "raised"]
                              ELSE cc' = [cc EXCEPT !.stack = Append(on, [f |-> e.to, i |-> 0])]
    /\ UNCHANGED <<fs, listing, outdir, opts, now, runs, edits, last, dg, ret>>

\* Line 518: the loop over targets is over, involved is returned.
Return ==
    /\ cc.pc = "loop"
    /\ cc.stack = <<>>
    /\ cc.ti > Len(cc.targets)
    /\ cc' = [cc EXCEPT !.pc = "done"]
    /\ UNCHANGED <<fs, listing, outdir, opts, now, runs, edits, last, dg, ret>>

\* The paths --context_for may name: nodes, a file that is no node, and a
\* file that does not exist.
TargetPaths == {<<"file1.ts">>, <<"file2.ts">>, <<"notes.txt">>,
                <<"node_modules", "dep.ts">>}

TargetLists == UNION {[1..n -> TargetPaths] : n \in 0..MaxTargets}

\* Texts that make a chain (file1.ts imports sub/m.ts imports file2.ts), a
\* cycle (file1.ts imports file2.ts imports file1.ts) and a self-import.
ChainText == <<Import("./sub/m"), Export("a")>>

SelfText == <<Import("./file1"), Export("x")>>

ContextTexts(f) ==
    CASE f = <<"file1.ts">> -> {File1Text, ChainText, SelfText}
      [] f = <<"file2.ts">> -> {File2Text, BackText}
      [] f = <<"sub", "m.ts">> -> {UpText}
      [] f = <<"notes.txt">> -> {NotesText}
      [] OTHER -> {File2Text}

ContextTrees ==
    Trees(<<<<"file1.ts">>, <<"file2.ts">>, <<"sub", "m.ts">>, <<"notes.txt">>>>,
          [f \in RepoFiles |-> ContextTexts(f)], 4)

ContextInit ==
    /\ fs \in ContextTrees
    /\ listing \in {"asc", "desc"}
    /\ outdir = <<"out", "repindex">>
    /\ opts \in [langs : {<<>>}, no_ignore : {FALSE}, skip_patterns : {<<>>, <<"sub/*">>}]
    /\ now = 0
    /\ runs = 0
    /\ edits = 0
    /\ last = NoRun
    /\ dg = NoGraphs
    /\ cc = NoGather
    /\ ret = NoReturn

ContextNext ==
    \/ \E targets \in TargetLists : Gather(targets)
    \/ NextTarget
    \/ DfsStep
    \/ Return

ContextSpec == ContextInit /\ [][ContextNext]_vars

\* The same call from the point where the graph is built (line 507) on.
\* Python runs the call to its end: every step that can be taken is taken.
LiveInit ==
    /\ fs \in ContextTrees
    /\ listing \in {"asc", "desc"}
    /\ outdir = <<"out", "repindex">>
    /\ opts \in [langs : {<<>>}, no_ignore : {FALSE}, skip_patterns : {<<>>, <<"sub/*">>}]
    /\ now = 0
    /\ runs = 0
    /\ edits = 0
    /\ last = NoRun
    /\ dg = NoGraphs
    /\ ret = NoReturn
    /\ \E built \in {build_dependency_graph(fs, Root, listing, opts.langs, "full",
                                            opts.no_ignore, opts.skip_patterns)} :
          \E targets \in TargetLists : cc = GatherStart(built, targets)

LiveNext ==
    \/ NextTarget
    \/ DfsStep
    \/ Return

ContextLive == LiveInit /\ [][LiveNext]_vars /\ WF_vars(LiveNext)

---------------------------------------------------------------------------
(* Properties of the Context Collector. *)

\* The nodes one import edge of g leads to from a node of S.
ImportSuccessors(g, S) ==
    {e.to : e \in {x \in Range(g.edges) : x.type = "import" /\ x.from \in S}}

\* The nodes reachable from S by zero or more import edges of g.
RECURSIVE Reachable(_, _)
Reachable(g, S) ==
    IF ImportSuccessors(g, S) \subseteq S THEN S
    ELSE Reachable(g, S \cup ImportSuccessors(g, S))

\* file1.ts imports sub/m.ts, which imports file2.ts.
ChainScenario ==
    /\ fs[Root \o <<"file1.ts">>] = File(ChainText)
    /\ fs[Root \o <<"sub", "m.ts">>] = File(UpText)
    /\ fs[Root \o <<"file2.ts">>] = File(File2Text)
    /\ opts.skip_patterns = <<>>

\* file1.ts imports file2.ts, which imports file1.ts (and itself).
CycleScenario ==
    /\ fs[Root \o <<"file1.ts">>] = File(File1Text)
    /\ fs[Root \o <<"file2.ts">>] = File(BackText)

\* C12: gather_dependencies_for_files returns exactly the nodes reachable by
\* import edges of the full graph from the targets that are nodes; export
\* edges add nothing, a target that is no node adds nothing, and the chain
\* file1.ts -> sub/m.ts -> file2.ts with target file1.ts gives all three.
C12_ReachableSet ==
    cc.pc = "done" =>
        /\ cc.involved = Reachable(cc.g, Range(cc.targets) \cap Range(cc.g.nodes))
        /\ cc.involved \subseteq Range(cc.g.nodes)
        /\ (ChainScenario /\ cc.targets = <<<<"file1.ts">>>>) =>
              cc.involved = {<<"file1.ts">>, <<"sub", "m.ts">>, <<"file2.ts">>}

\* The chain, gathered for a target that is no node and then for file1.ts,
\* in a graph that has export edges.
C12_Witness ==
    /\ cc.pc = "done"
    /\ ChainScenario
    /\ cc.targets = <<<<"notes.txt">>, <<"file1.ts">>>>
    /\ cc.involved = {<<"file1.ts">>, <<"sub", "m.ts">>, <<"file2.ts">>}
    /\ \E e \in Range(cc.g.edges) : e.type = "export"

\* C13: the traversal comes to its end on every graph, cycles and
\* self-imports included; no node is entered twice; the cycle
\* file1.ts -> file2.ts -> file1.ts with target file1.ts gives the two.
C13_Terminates ==
    /\ <>(cc.pc = "done")
    /\ [](cc.pc \in {"loop", "done"} =>
            /\ \A i, j \in 1..Len(cc.visited) : cc.visited[i] = cc.visited[j] => i = j
            /\ Range(cc.visited) = cc.involved)
    /\ []((cc.pc = "done" /\ CycleScenario /\ cc.targets = <<<<"file1.ts">>>>) =>
            cc.involved = {<<"file1.ts">>, <<"file2.ts">>})

\* The cycle, gathered for file1.ts, at its end.
C13_Witness ==
    /\ cc.pc = "done"
    /\ CycleScenario
    /\ cc.targets = <<<<"file1.ts">>>>
    /\ cc.involved = {<<"file1.ts">>, <<"file2.ts">>}
    /\ \E e \in Range(cc.g.edges) : e.type = "import" /\ e.from = e.to

---------------------------------------------------------------------------
(* Files that cannot be read. *)

\* A file that is listed by its directory and that open() or read() fails
\* on: no permission, a dangling link, bytes that are not UTF-8 (for the
\* extractors, which open without errors='replace').
Unreadable == [st |-> "unreadable", body |-> <<>>]

\* The trees of `trees`, each as it is and with one of its files unreadable.
WithUnreadable(trees) ==
    trees \cup UNION {{[t EXCEPT ![p] = Unreadable] : p \in {q \in AllPaths : Exists(t, q)}}
                        : t \in trees}

\* main, lines 679-682, on a tree that may hold a file that cannot be read.
FaultInit ==
    /\ fs \in WithUnreadable(SourceTrees)
    /\ listing \in {"asc", "desc"}
    /\ outdir = <<"out", "repindex">>
    /\ opts \in [langs : {<<>>}, no_ignore : BOOLEAN, skip_patterns : {<<>>}]
    /\ now = 0
    /\ runs = 0
    /\ edits = 0
    /\ last = NoRun
    /\ dg = NoGraphs
    /\ cc = NoGather
    /\ ret = NoReturn

FaultSpec == FaultInit /\ [][GraphNext]_vars

\* C14: a supported file that cannot be read has empty imports, exports and
\* structure, and the build goes on: every graph is returned, every eligible
\* file is a node and every other node has the facts of its text.
C14_ReadFailureDegrades ==
    dg.built =>
        \A t \in GraphTypes :
            /\ Graph(t).ok
            /\ \A fp \in Range(Eligible(fs, Root, listing, opts.langs,
                                        opts.no_ignore, opts.skip_patterns)) :
                /\ RelPath(fp, Root) \in Range(Graph(t).nodes)
                /\ Has(Graph(t).file_dependencies, RelPath(fp, Root))
                /\ Get(Graph(t).file_dependencies, RelPath(fp, Root))
                     = IF fs[fp].st = "file" THEN extract_dependencies(fs, fp) ELSE NoDeps

---------------------------------------------------------------------------
(* The Import Resolver, called by itself. *)

\* Trees for the resolver's probes: a directory with and without an index
\* file, a file under two extensions, a file that is not there.
ProbeTrees ==
    Trees(<<<<"index.ts">>, <<"index.tsx">>, <<"file2.ts">>, <<"file2.tsx">>,
            <<"sub", "index.ts">>, <<"sub", "m.ts">>, <<"file1.ts">>>>,
          [f \in RepoFiles |-> {File2Text}], 7)

\* resolve_import_path(file, imp, root_dir) for a file of the tree, as
\* build_dependency_graph calls it at line 248.
Resolve(file, imp) ==
    /\ ret.fn = "none"
    /\ Exists(fs, Root \o file)
    /\ ret' = [fn |-> "resolve_import_path", file |-> file, imp |-> imp,
               val |-> resolve_import_path(fs, file, imp, Root)]
    /\ UNCHANGED <<fs, listing, outdir, opts, now, runs, edits, last, dg, cc>>

ResolveInit ==
    /\ fs \in ProbeTrees
    /\ listing = "asc"
    /\ outdir = <<"out", "repindex">>
    /\ opts = [langs |-> <<>>, no_ignore |-> FALSE, skip_patterns |-> <<>>]
    /\ now = 0
    /\ runs = 0
    /\ edits = 0
    /\ last = NoRun
    /\ dg = NoGraphs
    /\ cc = NoGather
    /\ ret = NoReturn

ResolveNext ==
    \E file \in {<<"file1.ts">>, <<"sub", "m.ts">>} : \E imp \in Specifiers : Resolve(file, imp)

ResolveSpec == ResolveInit /\ [][ResolveNext]_vars

\* The form os.path.relpath gives a path, which is the form of a node key:
\* no "." segment, no ".." after a name.
NodeForm(p) == p = <<".">> \/ Collapse(p, <<>>) = p

\* C15: for a specifier that starts with '.', joined to the directory of the
\* declaring file and normalized: an existing directory gives the first of
\* index.ts, index.tsx, __init__.py that exists inside it, or the directory
\* itself; a path that is no directory and has no known extension gives the
\* first of path.ts, path.tsx, path.py that exists; every other path is
\* returned unchanged; and what is returned has the form of a node key.
C15_RelativeResolution ==
    (ret.fn = "resolve_import_path" /\ StartsWithDot(ret.imp)) =>
        LET candidate == normpath(Front(ret.file) \o SepSplit(ret.imp))
            at == Under(Root, candidate)
            pfs == <<"index.ts", "index.tsx", "__init__.py">>
            exts == <<".ts", ".tsx", ".py">>
            hasIndex(i) == PathExists(fs, at \o <<pfs[i]>>)
            hasExt(i) == PathExists(fs, AddExt(at, exts[i]))
            known == \E i \in 1..3 : EndsWith(Last(candidate), exts[i])
        IN  /\ IsDir(fs, at) =>
                /\ \A i \in 1..3 :
                     (hasIndex(i) /\ \A j \in 1..(i - 1) : ~hasIndex(j))
                        => Under(Root, ret.val) = at \o <<pfs[i]>>
                /\ (\A i \in 1..3 : ~hasIndex(i)) => ret.val = candidate
            /\ (~IsDir(fs, at) /\ ~known) =>
                /\ \A i \in 1..3 :
                     (hasExt(i) /\ \A j \in 1..(i - 1) : ~hasExt(j))
                        => Under(Root, ret.val) = AddExt(at, exts[i])
                /\ (\A i \in 1..3 : ~hasExt(i)) => ret.val = candidate
            /\ (~IsDir(fs, at) /\ known) => ret.val = candidate
            /\ NodeForm(ret.val)

---------------------------------------------------------------------------
(* The change report's diffs. *)

\* The content a stored hash was computed of.
Hashed(h) == h[2]

\* C16: every entry of the report's first section holds the unified diff
\* between the content the file had when the prior snapshot was taken (the
\* empty text when the snapshot lacks the file) and the content the run
\* read, and the "no diff available" line only when that diff is empty; so
\* a file edited between two runs is reported with a non-empty diff of the
\* edit.
C16_DiffAgainstPrior ==
    (last.kind = "reconcile" /\ last.wrote) =>
        \A i \in 1..Len(fs[ChangesFile].body[1].changed) :
            LET entry == fs[ChangesFile].body[1].changed[i]
                newc == Get(last.current, entry.path).content
                oldc == IF Has(last.old_files, entry.path)
                        THEN Hashed(Get(last.old_files, entry.path).hash)
                        ELSE <<>>
                diff == generate_diff(oldc, newc)
            IN  entry.diff = IF diff # <<>> THEN diff
                             ELSE <<"_No diff available (new file)_">>

---------------------------------------------------------------------------
(* The structural extractor, called by itself. *)

\* Statements at the top level of a Python module of the model.
MaxStmts == 2

\* Statements with no body of their own: `import os`, `def g(): pass`,
\* `class Inner: pass`.
PyLeaves ==
    {PyNode("Import", "os", <<>>), PyNode("FunctionDef", "g", <<>>),
     PyNode("ClassDef", "Inner", <<>>)}

\* The bodies a top-level def or class may have.
PyBodies == UNION {[1..n -> PyLeaves] : n \in 0..2}

\* Top-level statements: `import sys`, `def f(): <body>`, `class C: <body>`.
PyStmts ==
    {PyNode("Import", "sys", <<>>)}
        \cup {PyNode("FunctionDef", "f", b) : b \in PyBodies}
        \cup {PyNode("ClassDef", "C", b) : b \in PyBodies}

PyModules == UNION {[1..n -> PyStmts] : n \in 0..MaxStmts}

\* parse_python_structure(file_path) on a file that holds the module c.
ParsePython(c) ==
    /\ ret.fn = "none"
    /\ ret' = [fn |-> "parse_python_structure", c |-> c, val |-> parse_python_structure(c)]
    /\ UNCHANGED <<fs, listing, outdir, opts, now, runs, edits, last, dg, cc>>

PyInit ==
    /\ fs = [p \in AllPaths |-> Absent]
    /\ listing = "asc"
    /\ outdir = <<"out", "repindex">>
    /\ opts = [langs |-> <<"python">>, no_ignore |-> FALSE, skip_patterns |-> <<>>]
    /\ now = 0
    /\ runs = 0
    /\ edits = 0
    /\ last = NoRun
    /\ dg = NoGraphs
    /\ cc = NoGather
    /\ ret = NoReturn

PyNext == \E c \in PyModules : ParsePython(c)

PySpec == PyInit /\ [][PyNext]_vars

\* C17: the functions list holds the names of the module-level functions,
\* the classes list the module-level classes, each with the names of the
\* functions defined directly in it, all in declaration order, and nothing
\* that is nested in a function or a class; the exports are the function
\* names followed by the class names.
C17_TopLevelOnly ==
    ret.fn = "parse_python_structure" =>
        LET topF == Args(SelectSeq(ret.c, LAMBDA n : n.kind = "FunctionDef"))
            topC == SelectSeq(ret.c, LAMBDA n : n.kind = "ClassDef")
            classes == [i \in 1..Len(topC) |->
                          [name |-> topC[i].arg,
                           methods |-> Args(SelectSeq(topC[i].body,
                                                LAMBDA b : b.kind = "FunctionDef"))]]
        IN  /\ ret.val.structure.functions = topF
            /\ ret.val.structure.classes = classes
            /\ ret.val.exports = topF \o [i \in 1..Len(classes) |-> classes[i].name]

---------------------------------------------------------------------------
(* Runs of the Change Tracker, one after the other. *)

\* C18: the reconciling run that follows a run with caching disabled starts
\* from the empty snapshot: every file its walk read is changed and none is
\* removed, whatever the runs before had persisted.
C18_FreshAfterNoCache ==
    (last.kind = "reconcile" /\ last.after.kind = "no_cache") =>
        /\ last.old_files = <<>>
        /\ last.changed = Keys(last.current)
        /\ last.removed = <<>>

\* A reconciling run after a run with caching disabled that had found, and
\* removed, the snapshot of an earlier run; the walk read two files.
C18_Witness ==
    /\ last.kind = "reconcile"
    /\ last.after.kind = "no_cache"
    /\ last.after.hadCache
    /\ Len(last.current) >= 2
    /\ last.changed = Keys(last.current)

---------------------------------------------------------------------------
(* The Change Tracker on files that cannot be read. *)

\* The user takes away the permission to read a file (or replaces it by a
\* dangling link): open() at line 469 raises.
UserLock(f) ==
    /\ edits < MaxEdits
    /\ fs[Root \o f].st = "file"
    /\ fs' = [fs EXCEPT ![Root \o f] = Unreadable]
    /\ edits' = edits + 1
    /\ last' = [last EXCEPT !.fresh = FALSE]
    /\ UNCHANGED <<listing, outdir, opts, now, runs, dg, cc, ret>>

LockInit ==
    /\ fs \in TrackedTrees
    /\ listing \in {"asc", "desc"}
    /\ outdir = <<"out", "repindex">>
    /\ opts \in [langs : {<<>>}, no_ignore : BOOLEAN, skip_patterns : {<<>>}]
    /\ now = 0
    /\ runs = 0
    /\ edits = 0
    /\ last = NoRun
    /\ dg = NoGraphs
    /\ cc = NoGather
    /\ ret = NoReturn

LockNext ==
    \/ \E no_cache \in BOOLEAN : UpdateCacheAndGenerateDiff(no_cache)
    \/ \E f \in Tracked : \E body \in Texts(f) : UserWrite(f, body)
    \/ \E f \in Tracked : UserDelete(f)
    \/ \E f \in Tracked : UserLock(f)

LockSpec == LockInit /\ [][LockNext]_vars

\* C19: a file the walk cannot read does not stop the run: the snapshot is
\* persisted; the file is not in the file map nor in the new snapshot, and
\* is removed when the prior snapshot held it; every file the walk can read
\* is in the file map and the new snapshot with the hash of its content and
\* is changed exactly when the prior snapshot lacks it or holds another hash.
C19_UnreadableSkipped ==
    (last.kind = "reconcile" /\ last.fresh) =>
        /\ Exists(fs, CacheFile)
        /\ \A f \in Tracked :
            LET p == Root \o f
                files == fs[CacheFile].body[1].files
                walked == ~should_ignore(fs, Root \o Front(f), opts.langs,
                                         opts.no_ignore, opts.skip_patterns)
            IN  /\ fs[p].st = "unreadable" =>
                    /\ ~Has(last.current, f)
                    /\ ~Has(files, f)
                    /\ f \notin Range(last.changed)
                    /\ Has(last.old_files, f) => f \in Range(last.removed)
                /\ (fs[p].st = "file" /\ walked) =>
                    /\ Has(last.current, f)
                    /\ Has(files, f)
                    /\ Get(files, f).hash = compute_file_hash(fs[p].body)
                    /\ f \notin Range(last.removed)
                    /\ f \in Range(last.changed) <=>
                         \/ ~Has(last.old_files, f)
                         \/ Get(last.old_files, f).hash # compute_file_hash(fs[p].body)

\* A run that met a file it could not read and that the prior snapshot held,
\* beside a file whose content had changed and a snapshot to persist.
C19_Witness ==
    /\ last.kind = "reconcile"
    /\ last.fresh
    /\ \E f \in Tracked :
        /\ fs[Root \o f].st = "unreadable"
        /\ f \in Range(last.removed)
    /\ \E f \in Tracked :
        /\ fs[Root \o f].st = "file"
        /\ Has(last.old_files, f)
        /\ f \in Range(last.changed)
        /\ Has(fs[CacheFile].body[1].files, f)

=============================================================================
